---- MODULE Spec2Model ----
(***************************************************************************)
(* Document mirror of src/src/doc-mirror/index.ts: the registry of         *)
(* MirroredDocuments, the translation of host change events into edits of  *)
(* the line/offset model, and DocumentModel.edit.                          *)
(*                                                                         *)
(* Text is a sequence of characters; "CR" and "LF" stand for \r and \n.    *)
(* Line numbers and columns are 0-based as in the host API; sequences are  *)
(* 1-based, so line n of a line table is lines[n + 1].                     *)
(***************************************************************************)
EXTENDS Integers, Sequences, FiniteSets, TLC

CR == "CR"
LF == "LF"

\* ------------------------------------------------------------------ bounds
\* Longest LF-normalized document text the host is driven to.
MaxLen == 9
\* Content changes (ranges of change events) delivered in one run.
MaxChanges == 2
\* Mirrors constructed in one run.
MaxMirrors == 2
\* Calls of DocumentModel.edit in one run.
MaxEdits == 2
MaxReports == 3
MaxRuns == 2

\* --------------------------------------------------------------- text
RECURSIVE Join(_, _)
\* Array.prototype.join / the host's full text: lines with sep between them.
Join(lines, sep) ==
    IF Len(lines) = 0 THEN <<>>
    ELSE IF Len(lines) = 1 THEN lines[1]
    ELSE lines[1] \o sep \o Join(Tail(lines), sep)

\* The indexes at which a line terminator (\r\n or \n) of s starts.
Breaks(s) ==
    {i \in 1..Len(s) : \/ s[i] = LF
                       \/ (s[i] = CR /\ i < Len(s) /\ s[i + 1] = LF)}
\* The least of a set of indexes.
Least(S) == CHOOSE i \in S : \A j \in S : i <= j
\* Index of the first line terminator of s, 0 when there is none.
FirstBreak(s) == IF Breaks(s) = {} THEN 0 ELSE Least(Breaks(s))

RECURSIVE SplitLines(_)
\* The part of s before its terminator at i, then the lines of what follows it.
SplitAt(s, i) ==
    IF i = 0 THEN <<s>>
    ELSE <<SubSeq(s, 1, i - 1)>>
         \o SplitLines(SubSeq(s, i + (IF s[i] = CR THEN 2 ELSE 1), Len(s)))
\* text.split(/\r\n|\n/)
SplitLines(s) == SplitAt(s, FirstBreak(s))

\* The indexes at which s holds "\r\n".
CRLFs(s) == {i \in 1..Len(s) - 1 : s[i] = CR /\ s[i + 1] = LF}
\* text.replace(/\r\n/, '\n'): without the g flag only the first match is replaced.
ReplaceFirstCRLF(s) ==
    IF CRLFs(s) = {} THEN s
    ELSE SubSeq(s, 1, Least(CRLFs(s)) - 1) \o SubSeq(s, Least(CRLFs(s)) + 1, Len(s))

RECURSIVE ReplaceCRLF(_)
\* text.replace(/\r\n/g, '\n'): one left-to-right pass over the text.
ReplaceCRLF(s) ==
    IF Len(s) = 0 THEN <<>>
    ELSE IF Len(s) >= 2 /\ s[1] = CR /\ s[2] = LF
         THEN <<LF>> \o ReplaceCRLF(SubSeq(s, 3, Len(s)))
         ELSE <<s[1]>> \o ReplaceCRLF(Tail(s))

Min(a, b) == IF a <= b THEN a ELSE b
Max(a, b) == IF a <= b THEN b ELSE a

\* String.prototype.substr(0, n) and substr(n) on a character sequence.
SubstrTo(s, n) == SubSeq(s, 1, Min(n, Len(s)))
SubstrFrom(s, n) == SubSeq(s, Max(n, 0) + 1, Len(s))

\* ------------------------------------------------------- the host's documents
Docs == {"d1", "d2"}
NoDoc == "undefined"
Languages == {"clojure", "plaintext"}
EolStyles == {"LF", "CRLF"}

\* The characters of a document's end-of-line sequence.
EolSeq(style) == IF style = "CRLF" THEN <<CR, LF>> ELSE <<LF>>

\* Buffers the documents hold when the extension starts: "a", "a" EOL "b".
SeedLines == { <<<<"a">>>>, <<<<"a">>, <<"b">>>> }
\* The buffer "abc" EOL "def".
AbcDef == <<<<"a", "b", "c">>, <<"d", "e", "f">>>>

\* Replacement texts of change events: "", "\r\n".
SmallTexts == { <<>>, <<CR, LF>> }
\* Replacement texts of change events: "", "x", "a\r\nb", "\r\n\r\n".
ChangeTexts ==
    { <<>>, <<"x">>, <<"a", CR, LF, "b">>, <<CR, LF, CR, LF>> }

VARIABLES
    languageId,   \* host: TextDocument.languageId of each document
    eol,          \* host: TextDocument.eol of each document
    hostLines,    \* host: the lines of each document's buffer, terminators excluded
    registered,   \* index.ts:140
    subscribed,   \* host: how many times each listener of activate is subscribed
    documents,    \* index.ts:8, a Map as its sequence of entries [key, value]
    nextMirror,   \* number of MirroredDocuments constructed so far
    nChanges,     \* content changes delivered so far
    last,         \* the handler that ran last, with what addDocument returned to it
    event,        \* history: the contentChanges of the last change event handled
    calls,        \* history: the calls processChanges made on lineInputModel for it
    activeDoc,    \* host: the document of vscode.window.activeTextEditor, or NoDoc
    selections,   \* host: the selection <<anchor, active>> of each document's editor
    epc,          \* where the current call of DocumentModel.edit stands
    req,          \* the current call of DocumentModel.edit
    result,       \* what the promise returned by DocumentModel.edit settled to
    effects,      \* what the then callback of the current call did, in order
    nEdits,       \* calls of DocumentModel.edit so far
    undo,         \* host: each document's undo stack of editor.edit transactions
    diagnosticCollection,  \* testRunner.ts:10, per file the report whose
                           \* diagnostics it holds, 0 for none
    lookups,      \* host: the findFiles calls of reportTests that are pending
    nReports,     \* calls of reportTests so far
    lastReport,   \* history: the results given to the last call of reportTests
    rpc,          \* where the current call of runNamespaceTests stands
    run,          \* the current call of runNamespaceTests: its document
    sessionLog,   \* the requests it has made to the REPL session, in order
    output,       \* what it has appended to the output window, in order
    nRuns         \* calls of runNamespaceTests so far

mirrorVars == <<languageId, eol, hostLines, registered, subscribed, documents,
                nextMirror,
                nChanges, last, event, calls>>
editVars == <<selections, epc, req, result, effects, nEdits, undo>>
reportVars == <<diagnosticCollection, lookups, nReports, lastReport>>
runVars == <<rpc, run, sessionLog, output, nRuns>>
runnerVars == <<reportVars, runVars>>
vars == <<mirrorVars, activeDoc, editVars, runnerVars>>

\* vscode.TextDocument.getText(): the lines joined by the document's terminator.
HostGetText(lines, style) == Join(lines, EolSeq(style))

\* vscode.TextDocument.offsetAt(position) for a position of the buffer.
RECURSIVE HostOffsetAt(_, _, _, _)
HostOffsetAt(lines, style, line, character) ==
    IF line = 0 THEN character
    ELSE Len(lines[1]) + Len(EolSeq(style))
         + HostOffsetAt(Tail(lines), style, line - 1, character)

\* The positions <<line, character>> of a buffer.
Positions(lines) ==
    UNION {{<<l, c>> : c \in 0..Len(lines[l + 1])} : l \in 0..(Len(lines) - 1)}

PosLeq(p, q) == p[1] < q[1] \/ (p[1] = q[1] /\ p[2] <= q[2])

\* One content change: a range of the buffer before the event and its new text.
ContentChanges(lines, texts) ==
    {c \in [start : Positions(lines), end : Positions(lines), text : texts] :
        PosLeq(c.start, c.end)}

\* The contentChanges of one event: none, one range, or two disjoint ranges of
\* which the one later in the document comes first, as the host reports them.
\* Only events of at most budget ranges are drawn.
ChangeEvents(lines, texts, budget) ==
    {<<>>}
    \cup
    (IF budget >= 1 THEN {<<c>> : c \in ContentChanges(lines, texts)} ELSE {})
    \cup
    (IF budget >= 2
     THEN {cs \in ContentChanges(lines, texts) \X ContentChanges(lines, texts) :
              PosLeq(cs[2].end, cs[1].start)}
     ELSE {})

\* flat with its characters from offset s up to offset e replaced by text.
Splice(flat, s, e, text) == SubSeq(flat, 1, s) \o text \o SubSeq(flat, e + 1, Len(flat))

\* The host replaces the range by the text, its terminators made the document's.
HostApplyChange(lines, style, c) ==
    SplitLines(Splice(HostGetText(lines, style),
                      HostOffsetAt(lines, style, c.start[1], c.start[2]),
                      HostOffsetAt(lines, style, c.end[1], c.end[2]),
                      Join(SplitLines(c.text), EolSeq(style))))

RECURSIVE HostApplyChanges(_, _, _)
HostApplyChanges(lines, style, changes) ==
    IF Len(changes) = 0 THEN lines
    ELSE HostApplyChanges(HostApplyChange(lines, style, Head(changes)), style,
                          Tail(changes))

\* Length of a buffer's text with every terminator counted once.
NormalLen(lines) == Len(Join(lines, <<LF>>))

\* ------------------------------------------------------------ LineInputModel
\* A LineInputModel is its line table, its lineEndingLength and the three
\* collections it keeps for repainting: dirtyLines (line numbers, in the order they
\* were marked), insertedLines and deletedLines (pairs <<first line, count>>).
\* A new one holds one empty line.
NewLineInputModel(lineEndingLength) ==
    [lines |-> << <<>> >>, lineEndingLength |-> lineEndingLength,
     dirtyLines |-> <<>>, insertedLines |-> {}, deletedLines |-> {}]

RECURSIVE OffsetLoop(_, _, _)
OffsetLoop(lines, w, line) ==
    IF line = 0 THEN 0
    ELSE OffsetLoop(lines, w, line - 1) + Len(lines[line]) + w

\* LineInputModel.getOffsetForLine(line)
LimGetOffsetForLine(m, line) == OffsetLoop(m.lines, m.lineEndingLength, line)

RECURSIVE RowColLoop(_, _, _, _)
RowColLoop(lines, w, i, offset) ==
    IF i > Len(lines) THEN <<Len(lines) - 1, Len(lines[Len(lines)])>>
    ELSE IF offset > Len(lines[i])
         THEN RowColLoop(lines, w, i + 1, offset - (Len(lines[i]) + w))
         ELSE <<i - 1, offset>>

\* LineInputModel.getRowCol(offset)
LimGetRowCol(m, offset) == RowColLoop(m.lines, m.lineEndingLength, 1, offset)

\* LineInputModel.changeRange(start, end, text): the lines from the start's to the
\* end's are replaced by the kept left part, the text's lines and the kept right part.
LimSplice(lines, st, en, repl) ==
    SubSeq(lines, 1, st[1])
    \o (IF Len(repl) = 1
        THEN <<SubstrTo(lines[st[1] + 1], st[2]) \o repl[1]
               \o SubstrFrom(lines[en[1] + 1], en[2])>>
        ELSE <<SubstrTo(lines[st[1] + 1], st[2]) \o repl[1]>>
             \o SubSeq(repl, 2, Len(repl) - 1)
             \o <<repl[Len(repl)] \o SubstrFrom(lines[en[1] + 1], en[2])>>)
    \o SubSeq(lines, en[1] + 2, Len(lines))

RECURSIVE MarkDirty(_, _, _)
\* markDirty for the n lines from line first on: each is added once.
MarkDirty(dirty, first, n) ==
    IF n = 0 THEN dirty
    ELSE MarkDirty(IF \E i \in 1..Len(dirty) : dirty[i] = first THEN dirty
                   ELSE Append(dirty, first),
                   first + 1, n - 1)

\* The lines from row st[1] to row en[1] are replaced by the lines repl: the line
\* table is spliced, surplus or missing lines are noted as deleted or inserted, and
\* every replaced line is marked dirty.
LimChanged(m, st, en, repl) ==
    [m EXCEPT
       !.lines = LimSplice(m.lines, st, en, repl),
       !.deletedLines =
           IF en[1] - st[1] + 1 > Len(repl)
           THEN @ \cup {<<st[1] + Len(repl), en[1] - st[1] + 1 - Len(repl)>>}
           ELSE @,
       !.insertedLines =
           IF en[1] - st[1] + 1 < Len(repl)
           THEN @ \cup {<<en[1] + 1, Len(repl) - (en[1] - st[1] + 1)>>}
           ELSE @,
       !.dirtyLines = MarkDirty(@, st[1], Len(repl))]

LimChangeRange(m, start, end, text) ==
    LimChanged(m, LimGetRowCol(m, Min(start, end)), LimGetRowCol(m, Max(start, end)),
               SplitLines(text))

\* LineInputModel.insertString(offset, text)
LimInsertString(m, offset, text) == LimChangeRange(m, offset, offset, text)

\* LineInputModel.deleteRange(offset, count)
LimDeleteRange(m, offset, count) == LimChangeRange(m, offset, offset + count, <<>>)

\* new ModelEdit(editFn, args)
ModelEdit(editFn, args) == [editFn |-> editFn, args |-> args]

\* One ModelEdit applied: the method named by its editFn, called with its args.
LimApply(m, e) ==
    CASE e.editFn = "insertString" -> LimInsertString(m, e.args[1], e.args[2])
      [] e.editFn = "changeRange" -> LimChangeRange(m, e.args[1], e.args[2], e.args[3])
      [] e.editFn = "deleteRange" -> LimDeleteRange(m, e.args[1], e.args[2])
      [] OTHER -> m

RECURSIVE LimEdit(_, _)
\* LineInputModel.edit(edits, options): each edit is applied on the spot, in order.
LimEdit(m, edits) ==
    IF Len(edits) = 0 THEN m ELSE LimEdit(LimApply(m, Head(edits)), Tail(edits))

\* LineInputModel.getText(0, end of text): the lines joined by "\n".
LimText(m) == Join(m.lines, <<LF>>)

\* -------------------------------------------------------------- the registry
\* A JavaScript Map as the sequence of its entries, in insertion order.
MapHas(map, k) == \E i \in 1..Len(map) : map[i].key = k
MapGet(map, k) == map[CHOOSE i \in 1..Len(map) : map[i].key = k].value
MapKeys(map) == {map[i].key : i \in 1..Len(map)}
MapSet(map, k, v) ==
    IF MapHas(map, k)
    THEN [i \in 1..Len(map) |->
            IF map[i].key = k THEN [key |-> k, value |-> v] ELSE map[i]]
    ELSE Append(map, [key |-> k, value |-> v])
MapDelete(map, k) == SelectSeq(map, LAMBDA e : e.key # k)

\* DocumentModel.lineInputModel for a document of the given end-of-line style.
AlwaysOneLineEnding(style) == NewLineInputModel(1)
lineInputModel(style) == NewLineInputModel(IF style = "CRLF" THEN 2 ELSE 1)

\* DocumentModel.getOffsetForLine(line)
getOffsetForLine(model, line) == LimGetOffsetForLine(model, line)

\* new MirroredDocument(doc) followed by the seeding insertString(0, doc.getText()).
NewMirror(id, doc, lines, style) ==
    [id |-> id, document |-> doc,
     model |-> LimInsertString(lineInputModel(style), 0, HostGetText(lines, style))]

\* getDocument(doc): the Mirror, or NoDoc when the registry holds none.
getDocument(map, doc) == IF MapHas(map, doc) THEN MapGet(map, doc) ELSE NoDoc

\* addDocument(doc), called with the registry map and mirrors constructed so far n;
\* lang, lines and style are the document's languageId, buffer and eol.
addDocumentAnyLanguage(map, n, doc, lang, lines, style) ==
    IF doc # NoDoc
    THEN IF ~MapHas(map, doc)
         THEN [ret |-> FALSE, nextMirror |-> n + 1,
               documents |-> MapSet(map, doc, NewMirror(n, doc, lines, style))]
         ELSE [ret |-> TRUE, nextMirror |-> n, documents |-> map]
    ELSE [ret |-> FALSE, nextMirror |-> n, documents |-> map]

addDocumentReseeding(map, n, doc, lang, lines, style) ==
    IF doc # NoDoc /\ lang = "clojure"
    THEN [ret |-> MapHas(map, doc), nextMirror |-> n + 1,
          documents |-> MapSet(map, doc, NewMirror(n, doc, lines, style))]
    ELSE [ret |-> FALSE, nextMirror |-> n, documents |-> map]

addDocument(map, n, doc, lang, lines, style) ==
    IF doc # NoDoc /\ lang = "clojure"
    THEN IF ~MapHas(map, doc)
         THEN [ret |-> FALSE, nextMirror |-> n + 1,
               documents |-> MapSet(map, doc, NewMirror(n, doc, lines, style))]
         ELSE [ret |-> TRUE, nextMirror |-> n, documents |-> map]
    ELSE [ret |-> FALSE, nextMirror |-> n, documents |-> map]

\* ------------------------------------------------------ the Change Translator
\* change.text.replace(/\r\n/g, '\n')
NormalizeText(text) == ReplaceCRLF(text)

\* model.getOffsetForLine(position.line) + position.character
BareColumn(model, pos) == pos[2]
MyOffset(model, pos) == getOffsetForLine(model, pos[1]) + pos[2]

\* The ModelEdit built for one content change against the model as it stands.
TranslateChange(model, change) ==
    ModelEdit("changeRange", <<MyOffset(model, change.start),
                               MyOffset(model, change.end),
                               NormalizeText(change.text)>>)

\* A call of lineInputModel.edit, recorded with the line table it was built against.
EditCall(model, edits) == [fn |-> "edit", edits |-> edits, table |-> model.lines]
FlushCall == [fn |-> "flushChanges", edits |-> <<>>, table |-> <<>>]

RECURSIVE ChangeLoop(_, _, _)
\* One turn of the loop: edit is called with the one edit, the loop goes on.
ChangeStep(model, edits, rest, log) ==
    ChangeLoop(LimEdit(model, edits), rest, Append(log, EditCall(model, edits)))

\* The loop of processChanges: per change, translate and call edit with that one edit.
ChangeLoop(model, changes, log) ==
    IF Len(changes) = 0 THEN [model |-> model, calls |-> log]
    ELSE ChangeStep(model, <<TranslateChange(model, Head(changes))>>, Tail(changes),
                    log)

\* processChanges as one batch: every change translated first, one edit call.
OneBatch(model, edits) ==
    [model |-> LimEdit(model, edits), calls |-> <<EditCall(model, edits), FlushCall>>]
processChangesOneBatch(model, changes) ==
    OneBatch(model, [i \in 1..Len(changes) |-> TranslateChange(model, changes[i])])

\* processChanges(event) on the event document's model: the loop, flushChanges,
\* then the model's dirtyLines, insertedLines and deletedLines are emptied.
Flushed(r) == [model |-> r.model, calls |-> Append(r.calls, FlushCall)]
Cleared(r) ==
    [model |-> [r.model EXCEPT !.dirtyLines = <<>>, !.insertedLines = {},
                               !.deletedLines = {}],
     calls |-> r.calls]
processChangesUncleared(model, changes) == Flushed(ChangeLoop(model, changes, <<>>))
processChanges(model, changes) == Cleared(Flushed(ChangeLoop(model, changes, <<>>)))

\* ---------------------------------------------------------- DocumentModel.edit
\* vscode.TextDocument.positionAt(offset): the offset is brought into the buffer,
\* and an offset inside a terminator gives the end of its line.
RECURSIVE PositionLoop(_, _, _, _)
PositionLoop(lines, w, i, offset) ==
    IF i = Len(lines) \/ offset <= Len(lines[i])
    THEN <<i - 1, Min(Max(offset, 0), Len(lines[i]))>>
    ELSE IF offset < Len(lines[i]) + w
         THEN <<i - 1, Len(lines[i])>>
         ELSE PositionLoop(lines, w, i + 1, offset - (Len(lines[i]) + w))

HostPositionAt(lines, style, offset) ==
    PositionLoop(lines, Len(EolSeq(style)), 1, offset)

\* new vscode.Range(a, b): the earlier position is the start.
Range(a, b) == IF PosLeq(a, b) THEN [start |-> a, end |-> b]
               ELSE [start |-> b, end |-> a]

\* What insertEdit, replaceEdit and deleteEdit hand to the builder, on the buffer
\* of the active editor's document.
RangeEdit(range, text) == [start |-> range.start, end |-> range.end, text |-> text]

insertEdit(lines, style, offset, text) ==
    RangeEdit(Range(HostPositionAt(lines, style, offset),
                    HostPositionAt(lines, style, offset)), text)

replaceEdit(lines, style, start, end, text) ==
    RangeEdit(Range(HostPositionAt(lines, style, start),
                    HostPositionAt(lines, style, end)), text)

deleteEdit(lines, style, offset, count) ==
    RangeEdit(Range(HostPositionAt(lines, style, offset),
                    HostPositionAt(lines, style, offset + count)), <<>>)

\* One ModelEdit dispatched on its editFn; an unknown editFn adds nothing.
BuilderOp(lines, style, e) ==
    CASE e.editFn = "insertString" -> <<insertEdit(lines, style, e.args[1], e.args[2])>>
      [] e.editFn = "changeRange" ->
           <<replaceEdit(lines, style, e.args[1], e.args[2], e.args[3])>>
      [] e.editFn = "deleteRange" -> <<deleteEdit(lines, style, e.args[1], e.args[2])>>
      [] OTHER -> <<>>

RECURSIVE BuilderOps(_, _, _)
\* The callback given to editor.edit: each ModelEdit dispatched on its editFn.
BuilderOps(lines, style, modelEdits) ==
    IF Len(modelEdits) = 0 THEN <<>>
    ELSE BuilderOp(lines, style, Head(modelEdits))
         \o BuilderOps(lines, style, Tail(modelEdits))

\* The ranges of a transaction do not overlap.
OpsDisjoint(ops) ==
    \A i, j \in 1..Len(ops) :
        i # j => PosLeq(ops[i].end, ops[j].start) \/ PosLeq(ops[j].end, ops[i].start)

\* The order of the ranges of a transaction by their starts alone, the first in
\* call order among equal starts.
LatestByStart(ops) ==
    CHOOSE k \in 1..Len(ops) :
        \A j \in 1..Len(ops) : \/ ~PosLeq(ops[k].start, ops[j].start)
                               \/ (ops[j].start = ops[k].start /\ k <= j)
                               \/ j = k

\* Range a, the i-th of the builder's calls, is applied by the host before range
\* b, the j-th: the one that ends later, then the one that starts later, then the
\* one of the later call.
AppliedBefore(a, i, b, j) ==
    IF a.end # b.end THEN PosLeq(b.end, a.end)
    ELSE IF a.start # b.start THEN PosLeq(b.start, a.start)
    ELSE j <= i

\* The index of the range the host applies first.
Latest(ops) ==
    CHOOSE k \in 1..Len(ops) :
        \A j \in 1..Len(ops) : AppliedBefore(ops[k], k, ops[j], j)
Without(ops, i) == [n \in 1..(Len(ops) - 1) |-> IF n < i THEN ops[n] ELSE ops[n + 1]]

RECURSIVE LaterFirst(_)
\* The ranges of a transaction as the host reports them: the later in the document
\* first.
LaterFirst(ops) ==
    IF Len(ops) = 0 THEN <<>>
    ELSE <<ops[Latest(ops)]>> \o LaterFirst(Without(ops, Latest(ops)))

\* options.selection, absent or a ModelEditSelection of two offsets.
NoSelection == [present |-> FALSE, anchor |-> 0, active |-> 0]
Selection(anchor, active) == [present |-> TRUE, anchor |-> anchor, active |-> active]
NoReq == [this |-> NoDoc, editor |-> NoDoc, ops |-> <<>>, committed |-> "none",
          selection |-> NoSelection, skipFormat |-> FALSE,
          undoStopBefore |-> FALSE, undoStopAfter |-> FALSE, formatDepth |-> 0]

\* The options DocumentModel.edit gives to editor.edit.
UndoStopAfterEach(options) ==
    [undoStopBefore |-> options.undoStopBefore, undoStopAfter |-> TRUE]
UndoStops(options) ==
    [undoStopBefore |-> options.undoStopBefore, undoStopAfter |-> FALSE]

\* An editor's undo stack: the number of transactions in each of its undo groups,
\* oldest first, and whether the last group still takes transactions. An undo stop
\* closes the last group.
NoUndo == [groups |-> <<>>, open |-> FALSE]
UndoStop(u) == [u EXCEPT !.open = FALSE]
Grouped(u) ==
    IF u.open THEN [u EXCEPT !.groups[Len(u.groups)] = @ + 1]
    ELSE [groups |-> Append(u.groups, 1), open |-> TRUE]
StopAfter(u, after) == IF after THEN UndoStop(u) ELSE u

\* The host commits a transaction of n ranges under the given undo stops; a
\* transaction without ranges leaves the undo stack alone.
HostTransaction(u, before, after, n) ==
    IF n = 0 THEN u
    ELSE StopAfter(Grouped(IF before THEN UndoStop(u) ELSE u), after)

\* Two inserts at offset 0 in one batch.
XThenY == <<ModelEdit("insertString", <<0, <<"X">>>>),
            ModelEdit("insertString", <<0, <<"Y">>>>)>>

\* The batches of ModelEdits given to DocumentModel.edit.
EditBatches ==
    { <<>>,
      <<ModelEdit("insertString", <<0, <<"x">>>>)>>,
      <<ModelEdit("deleteRange", <<1, 1>>)>>,
      <<ModelEdit("changeRange", <<0, 1, <<"x">>>>),
        ModelEdit("insertString", <<2, <<"x">>>>)>>,
      XThenY }

\* The ModelEditOptions given to DocumentModel.edit; formatDepth 0 is an absent one.
EditOptions ==
    [selection : {NoSelection, Selection(0, 2)},
     skipFormat : BOOLEAN,
     undoStopBefore : BOOLEAN,
     formatDepth : {0, 2}]

\* What formatter.formatPosition's promise settles to.
FormatOutcomes == {"true", "false", "undefined", "rejected"}

\* The rest of the then callback once the selection is dealt with: the formatter
\* is called unless skipFormat is set.
AfterSelection(r, sels, did) ==
    IF ~r.skipFormat
    THEN [result |-> "pending", selections |-> sels,
          effects |-> Append(did,
              [what |-> "format", editor |-> r.editor,
               depth |-> IF r.formatDepth # 0 THEN r.formatDepth ELSE 1])]
    ELSE [result |-> "true", selections |-> sels, effects |-> did]

\* The then callback's branch for a committed transaction. The selection setter
\* works on the editor that is active now; without one it throws and the promise
\* is rejected.
WhenFulfilled(r, active, lines, style, sels) ==
    IF r.selection.present /\ active = NoDoc
    THEN [result |-> "rejected", selections |-> sels, effects |-> <<>>]
    ELSE AfterSelection(r,
             IF r.selection.present
             THEN [sels EXCEPT ![active] =
                      <<HostPositionAt(lines, style, r.selection.anchor),
                        HostPositionAt(lines, style, r.selection.active)>>]
             ELSE sels,
             IF r.selection.present
             THEN <<[what |-> "selection", editor |-> active],
                    [what |-> "reveal", editor |-> active]>>
             ELSE <<>>)

\* The callback given to then, run with the result of the commit: what the promise
\* settles to now (or "pending" on the formatter), the selections and the effects.
ThenWithoutCommitTest(isFulfilled, r, active, lines, style, sels) ==
    WhenFulfilled(r, active, lines, style, sels)

ThenCallback(isFulfilled, r, active, lines, style, sels) ==
    IF isFulfilled
    THEN WhenFulfilled(r, active, lines, style, sels)
    ELSE [result |-> "false", selections |-> sels, effects |-> <<>>]

\* ------------------------------------------------------------- the handlers
\* What a handler leaves in last: its name, its document, addDocument's result
\* ("none" when the handler did not call addDocument) and the number of ranges of
\* its event.
Ran(op, doc, ret, ranges) == [op |-> op, doc |-> doc, ret |-> ret, ranges |-> ranges]
RetOf(r) == IF r.ret THEN "true" ELSE "false"

\* The listener of onDidCloseTextDocument, on the registry map.
CloseHandlerKeeps(map, doc, lang) == map
CloseHandler(map, doc, lang) == IF lang = "clojure" THEN MapDelete(map, doc) ELSE map

\* The listener of onDidChangeTextDocument for an event on doc, whose buffer now
\* holds the lines after.
\* The change listener without its call of processChanges.
NotProcessed(r) ==
    [ret |-> r.ret, nextMirror |-> r.nextMirror, calls |-> <<>>,
     documents |-> r.documents]
ChangeListenerWithoutProcess(map, n, doc, lang, after, style, changes) ==
    NotProcessed(addDocument(map, n, doc, lang, after, style))

\* The listener's call of processChanges has returned p: the Mirror holds its model.
Processed(map, n, doc, mirror, p) ==
    [ret |-> TRUE, nextMirror |-> n, calls |-> p.calls,
     documents |-> MapSet(map, doc, [mirror EXCEPT !.model = p.model])]
Listened(map, n, doc, changes, r) ==
    IF r.ret
    THEN Processed(map, n, doc, MapGet(map, doc),
                   processChanges(MapGet(map, doc).model, changes))
    ELSE [ret |-> FALSE, nextMirror |-> r.nextMirror, calls |-> <<>>,
          documents |-> r.documents]

ChangeListener(map, n, doc, lang, after, style, changes) ==
    Listened(map, n, doc, changes, addDocument(map, n, doc, lang, after, style))

\* The events activate subscribes a listener to.
Listeners == {"close", "activeEditor", "open", "change"}

\* The four subscriptions of activate: one more listener on each event.
Subscribe(subs) == [l \in Listeners |-> subs[l] + 1]

\* The host delivers one change event: each of the k subscribed change listeners
\* runs, one after the other, on the registry as the one before left it.
ListenAgain(r, doc, lang, after, style, changes) ==
    ChangeListener(r.documents, r.nextMirror, doc, lang, after, style, changes)
RECURSIVE ChangeListeners(_, _, _, _, _, _, _, _)
ChangeListeners(k, map, n, doc, lang, after, style, changes) ==
    IF k = 0
    THEN [ret |-> FALSE, nextMirror |-> n, calls |-> <<>>, documents |-> map]
    ELSE ListenAgain(ChangeListeners(k - 1, map, n, doc, lang, after, style, changes),
                     doc, lang, after, style, changes)

\* ------------------------------------------------------------ testRunner.ts
\* The files test results name: one by its full path, the others by a bare name.
FileNames == {"/src/a_test.clj", "b_test.clj", "c_test.clj"}
startsWithSlash(fileName) == fileName = "/src/a_test.clj"

\* One result of a test request: the files of its assertions of type "fail", and
\* its summary. The summary counts what the result holds.
Result(fails, test, error) ==
    [fails |-> fails,
     summary |-> [test |-> test, error |-> error, fail |-> Cardinality(fails)]]
NoTests == Result({}, 0, 0)
TestResults ==
    {NoTests} \cup {Result(fails, 2, error) : fails \in SUBSET FileNames,
                                             error \in {0, 1}}

\* reportTests: diagnostics, the files with a failure in some result.
RECURSIVE Diagnostics(_)
Diagnostics(results) ==
    IF Len(results) = 0 THEN {}
    ELSE Head(results).fails \cup Diagnostics(Tail(results))

\* reportTests: total_summary, the sum of the results' summaries.
RECURSIVE TotalSummary(_)
TotalSummary(results) ==
    IF Len(results) = 0 THEN [test |-> 0, error |-> 0, fail |-> 0]
    ELSE [k \in {"test", "error", "fail"} |->
            Head(results).summary[k] + TotalSummary(Tail(results))[k]]

\* reportTests: the files whose diagnostics are published, none unless tests ran
\* and the summary counts an error or a failure.
Published(results) ==
    IF TotalSummary(results).test > 0
       /\ TotalSummary(results).error + TotalSummary(results).fail > 0
    THEN Diagnostics(results)
    ELSE {}

\* diagnosticCollection.clear()
EmptyCollection == [f \in FileNames |-> 0]

\* reportTests(results, errorStr), the n-th call: the collection is cleared, the
\* diagnostics of files named by their path are set at once, for the others a
\* findFiles is started.
reportTests(results, n, pending) ==
    [collection |-> [f \in FileNames |->
                       IF f \in Published(results) /\ startsWithSlash(f) THEN n
                       ELSE 0],
     lookups |-> pending \cup {[fileName |-> f, report |-> n] :
                                f \in {g \in Published(results) :
                                          ~startsWithSlash(g)}}]

\* The then callback of findFiles: diagnosticCollection.set(uri[0], errors) with
\* the errors of the report that started it; without a file found, uri[0] is
\* undefined and set throws.
LookupThen(collection, lookup, found) ==
    IF found THEN [collection EXCEPT ![lookup.fileName] = lookup.report]
    ELSE collection

\* The namespaces of the documents tests are run for, and ns + '-test'.
Namespaces == {"app.core", "app.core-test"}
endsWithTest(ns) == ns = "app.core-test"
TestNS(ns) == "app.core-test"

\* A request made to the REPL session, pending until the session answers.
Request(op, ns) == [op |-> op, ns |-> ns, state |-> "pending", result |-> NoTests]

\* The i-th request of a log settles.
Settled(log, i, ok, answer) ==
    [log EXCEPT ![i] = [@ EXCEPT !.state = IF ok THEN "resolved" ELSE "rejected",
                                 !.result = answer]]

\* runNamespaceTests: resultPromises, one session.testNs per namespace of nss.
TestRequests(nss) == [i \in 1..Len(nss) |-> Request("testNs", nss[i])]

\* considerTestNS has returned: nss is [ns] for a namespace ending in "-test",
\* else [ns, ns + '-test'].
ConsideredNss(ns) == IF endsWithTest(ns) THEN <<ns>> ELSE <<ns, TestNS(ns)>>

\* Promise.all(resultPromises) resolves when every test request has resolved.
AnyTestResolved(log) ==
    \E i \in 1..Len(log) : log[i].op = "testNs" /\ log[i].state = "resolved"
AllTestsResolved(log) ==
    \A i \in 1..Len(log) : log[i].op = "testNs" => log[i].state = "resolved"

\* The results of the test requests, in the order of resultPromises.
RECURSIVE ResultsOf(_)
ResultsOf(log) ==
    IF Len(log) = 0 THEN <<>>
    ELSE (IF Head(log).op = "testNs" THEN <<Head(log).result>> ELSE <<>>)
         \o ResultsOf(Tail(log))

NoRun == [ns |-> "", resultsDoc |-> FALSE, connected |-> FALSE]

\* The results the session answers a test request with.
RunResults == {NoTests, Result({}, 2, 0), Result({"b_test.clj"}, 2, 0)}

InitRunner ==
    /\ diagnosticCollection = EmptyCollection
    /\ lookups = {}
    /\ nReports = 0
    /\ lastReport = <<>>
    /\ rpc = "idle"
    /\ run = NoRun
    /\ sessionLog = <<>>
    /\ output = <<>>
    /\ nRuns = 0

\* The module's state when the extension is loaded, before activate() is called.
InitModule ==
    /\ languageId = [d \in Docs |-> IF d = "d1" THEN "clojure" ELSE "plaintext"]
    /\ registered = FALSE
    /\ subscribed = [l \in Listeners |-> 0]
    /\ documents = <<>>
    /\ nextMirror = 0
    /\ nChanges = 0
    /\ last = Ran("none", NoDoc, "none", 0)
    /\ event = <<>>
    /\ calls = <<>>
    /\ activeDoc = NoDoc
    /\ selections = [d \in Docs |-> <<<<0, 0>>, <<0, 0>>>>]
    /\ epc = "idle"
    /\ req = NoReq
    /\ result = "pending"
    /\ effects = <<>>
    /\ nEdits = 0
    /\ undo = [d \in Docs |-> NoUndo]
    /\ InitRunner

Init ==
    /\ InitModule
    /\ eol \in {f \in [Docs -> EolStyles] : f["d2"] = "LF"}
    /\ hostLines \in {f \in [Docs -> SeedLines] : f["d2"] = <<<<"a">>>>}

InitEdit ==
    /\ InitModule
    /\ eol \in {f \in [Docs -> EolStyles] : f["d2"] = "LF"}
    /\ hostLines = [d \in Docs |-> IF d = "d1" THEN <<<<"a">>, <<"b">>>>
                                   ELSE <<<<"a">>>>]

\* utilities.getDocument({}): the active editor's document, else that of a visible
\* editor, else none.
ActiveOrVisible == IF activeDoc # NoDoc THEN {activeDoc} ELSE Docs \cup {NoDoc}

\* A handler's call of addDocument has returned r: the registry as r left it.
Registers(r, op, doc, ranges) ==
    /\ r.nextMirror <= MaxMirrors
    /\ nextMirror' = r.nextMirror
    /\ documents' = r.documents
    /\ last' = Ran(op, doc, RetOf(r), ranges)

\* activate() without the test of registered.
ActivateUnguarded(active) ==
    /\ active \in ActiveOrVisible
    /\ registered' = TRUE
    /\ subscribed' = Subscribe(subscribed)
    /\ \E r \in {IF active = NoDoc
                 THEN addDocument(documents, nextMirror, NoDoc, "", <<>>, "LF")
                 ELSE addDocument(documents, nextMirror, active,
                                  languageId[active], hostLines[active],
                                  eol[active])} :
          Registers(r, "activate", active, 0)
    /\ event' = <<>>
    /\ calls' = <<>>
    /\ UNCHANGED <<languageId, eol, hostLines, nChanges, activeDoc, editVars>>
    /\ UNCHANGED runnerVars

\* activate(); active is what utilities.getDocument({}) returns.
Activate(active) ==
    /\ active \in ActiveOrVisible
    /\ IF registered
       THEN /\ last' = Ran("activate", NoDoc, "none", 0)
            /\ UNCHANGED <<registered, subscribed, documents, nextMirror>>
       ELSE /\ registered' = TRUE
            /\ subscribed' = Subscribe(subscribed)
            /\ \E r \in {IF active = NoDoc
                         THEN addDocument(documents, nextMirror, NoDoc, "", <<>>, "LF")
                         ELSE addDocument(documents, nextMirror, active,
                                          languageId[active], hostLines[active],
                                          eol[active])} :
                  Registers(r, "activate", active, 0)
    /\ event' = <<>>
    /\ calls' = <<>>
    /\ UNCHANGED <<languageId, eol, hostLines, nChanges, activeDoc, editVars>>
    /\ UNCHANGED runnerVars

\* The host closes doc; the listener of onDidCloseTextDocument runs when subscribed.
DidClose(doc) ==
    /\ registered
    /\ documents' = CloseHandler(documents, doc, languageId[doc])
    /\ last' = Ran("close", doc, "none", 0)
    /\ event' = <<>>
    /\ calls' = <<>>
    /\ UNCHANGED <<languageId, eol, hostLines, registered, subscribed, nextMirror,
                   nChanges, activeDoc, editVars>>
    /\ UNCHANGED runnerVars

\* The active editor changes to one showing doc, or to none (NoDoc); the listener
\* of onDidChangeActiveTextEditor runs when subscribed.
DidChangeActiveTextEditor(doc) ==
    /\ doc # activeDoc
    /\ activeDoc' = doc
    /\ IF registered
       THEN IF doc # NoDoc /\ languageId[doc] = "clojure"
            THEN Registers(addDocument(documents, nextMirror, doc, languageId[doc],
                                       hostLines[doc], eol[doc]),
                           "activeEditor", doc, 0)
            ELSE /\ last' = Ran("activeEditor", doc, "none", 0)
                 /\ UNCHANGED <<documents, nextMirror>>
       ELSE /\ last' = Ran("none", NoDoc, "none", 0)
            /\ UNCHANGED <<documents, nextMirror>>
    /\ event' = <<>>
    /\ calls' = <<>>
    /\ UNCHANGED <<languageId, eol, hostLines, registered, subscribed, nChanges,
                   editVars>>
    /\ UNCHANGED runnerVars

\* The host opens doc; the listener of onDidOpenTextDocument runs.
DidOpen(doc) ==
    /\ registered
    /\ Registers(addDocument(documents, nextMirror, doc, languageId[doc],
                             hostLines[doc], eol[doc]),
                 "open", doc, 0)
    /\ event' = <<>>
    /\ calls' = <<>>
    /\ UNCHANGED <<languageId, eol, hostLines, registered, subscribed, nChanges,
                   activeDoc, editVars>>
    /\ UNCHANGED runnerVars

\* The host applies the changes of one event to doc's buffer, then the listener of
\* onDidChangeTextDocument runs (when subscribed) on the changed document. The
\* history of the event is kept when log is set.
DidChange(doc, changes, log) ==
    /\ nChanges + Len(changes) <= MaxChanges
    /\ nChanges' = nChanges + Len(changes)
    /\ \E after \in {HostApplyChanges(hostLines[doc], eol[doc], changes)} :
          /\ NormalLen(after) <= MaxLen
          /\ hostLines' = [hostLines EXCEPT ![doc] = after]
          /\ IF registered
             THEN \E r \in {ChangeListeners(subscribed["change"], documents,
                                            nextMirror, doc, languageId[doc],
                                            after, eol[doc], changes)} :
                     /\ Registers(r, "change", doc, Len(changes))
                     /\ event' = IF log THEN changes ELSE <<>>
                     /\ calls' = IF log THEN r.calls ELSE <<>>
             ELSE /\ last' = Ran("none", NoDoc, "none", 0)
                  /\ event' = <<>>
                  /\ calls' = <<>>
                  /\ UNCHANGED <<documents, nextMirror>>
    /\ UNCHANGED <<languageId, eol, registered, subscribed, activeDoc, editVars>>
    /\ UNCHANGED runnerVars

\* The language of doc is changed: the host reports the document closed under its
\* old languageId and opened under the new one.
LanguageChanged(doc, lang) ==
    /\ lang # languageId[doc]
    /\ languageId' = [languageId EXCEPT ![doc] = lang]
    /\ IF registered
       THEN Registers(addDocument(CloseHandler(documents, doc, languageId[doc]),
                                  nextMirror, doc, lang, hostLines[doc], eol[doc]),
                      "reopen", doc, 0)
       ELSE /\ last' = Ran("none", NoDoc, "none", 0)
            /\ UNCHANGED <<documents, nextMirror>>
    /\ event' = <<>>
    /\ calls' = <<>>
    /\ UNCHANGED <<eol, hostLines, registered, subscribed, nChanges, activeDoc,
                   editVars>>
    /\ UNCHANGED runnerVars

\* MirroredDocument.selectionLeft and selectionRight: the offsets of the anchor and
\* of the active end of the active editor's selection sel = <<anchor, active>>.
selectionLeft(lines, style, sel) == HostOffsetAt(lines, style, sel[1][1], sel[1][2])
selectionRight(lines, style, sel) == HostOffsetAt(lines, style, sel[2][1], sel[2][2])

\* The TextEdit of MirroredDocument.insertString(text): an insert at
\* positionAt(selectionLeft).
insertStringEdit(lines, style, sel, text) ==
    insertEdit(lines, style, selectionLeft(lines, style, sel), text)

\* The user selects from anchor to active in the active editor.
SelectionChanges(anchor, active) ==
    /\ activeDoc # NoDoc
    /\ selections' = [selections EXCEPT ![activeDoc] = <<anchor, active>>]
    /\ last' = Ran("selection", activeDoc, "none", 0)
    /\ event' = <<>>
    /\ calls' = <<>>
    /\ UNCHANGED <<languageId, eol, hostLines, registered, subscribed, documents,
                   nextMirror, nChanges, activeDoc, epc, req, result, effects,
                   nEdits, undo>>
    /\ UNCHANGED runnerVars

\* MirroredDocument.insertString(text) on the Mirror of the active editor's
\* document: the selection is kept, the host settles workspace.applyEdit (ok: the
\* edit was applied, and the change listener has run), and the then callback puts
\* the kept selection back.
InsertString(this, text, ok) ==
    /\ activeDoc = this
    /\ MapHas(documents, this)
    /\ nChanges < MaxChanges
    /\ nChanges' = nChanges + 1
    /\ \E changes \in {<<insertStringEdit(hostLines[this], eol[this],
                                          selections[activeDoc], text)>>} :
       \E after \in {IF ok THEN HostApplyChanges(hostLines[this], eol[this], changes)
                     ELSE hostLines[this]} :
          /\ NormalLen(after) <= MaxLen
          /\ hostLines' = [hostLines EXCEPT ![this] = after]
          /\ IF ok /\ registered
             THEN \E r \in {ChangeListeners(subscribed["change"], documents,
                                            nextMirror, this, languageId[this],
                                            after, eol[this], changes)} :
                     /\ Registers(r, "change", this, 1)
                     /\ event' = changes
                     /\ calls' = r.calls
             ELSE /\ last' = Ran("none", NoDoc, "none", 0)
                  /\ event' = <<>>
                  /\ calls' = <<>>
                  /\ UNCHANGED <<documents, nextMirror>>
    /\ selections' = [selections EXCEPT ![activeDoc] = selections[activeDoc]]
    /\ UNCHANGED <<languageId, eol, registered, subscribed, activeDoc, epc, req,
                   result, effects, nEdits, undo>>
    /\ UNCHANGED runnerVars

\* What a call of getDocumentOffset came to: returned with an offset, or thrown.
Looked(doc, ret, offset) ==
    [op |-> "getDocumentOffset", doc |-> doc, ret |-> ret, ranges |-> 0,
     offset |-> offset]

\* getDocumentOffset(doc, position) on the registry map: reading .model of the
\* undefined that getDocument returns for an absent Mirror throws a TypeError.
getDocumentOffset(map, doc, position) ==
    IF MapHas(map, doc)
    THEN Looked(doc, "returned",
                getOffsetForLine(getDocument(map, doc).model, position[1])
                + position[2])
    ELSE Looked(doc, "thrown", 0)

\* A caller asks for the model offset of a position of doc's buffer.
GetDocumentOffset(doc, position) ==
    /\ last' = getDocumentOffset(documents, doc, position)
    /\ event' = <<>>
    /\ calls' = <<>>
    /\ UNCHANGED <<languageId, eol, hostLines, registered, subscribed, documents,
                   nextMirror, nChanges, activeDoc, editVars>>
    /\ UNCHANGED runnerVars

\* DocumentModel.edit(modelEdits, options) on the model of this document's Mirror,
\* up to the call of editor.edit: the editor is the active one, the builder's
\* ranges are taken on its document. Without an active editor the call throws.
EditRequest(this, modelEdits, options) ==
    /\ epc = "idle"
    /\ nEdits < MaxEdits
    /\ MapHas(documents, this)
    /\ nEdits' = nEdits + 1
    /\ effects' = <<>>
    /\ IF activeDoc = NoDoc
       THEN /\ epc' = "settled"
            /\ result' = "thrown"
            /\ req' = NoReq
       ELSE /\ epc' = "committing"
            /\ result' = "pending"
            /\ req' = [this |-> this, editor |-> activeDoc,
                       ops |-> BuilderOps(hostLines[activeDoc], eol[activeDoc],
                                          modelEdits),
                       committed |-> "none",
                       selection |-> options.selection,
                       skipFormat |-> options.skipFormat,
                       undoStopBefore |-> UndoStops(options).undoStopBefore,
                       undoStopAfter |-> UndoStops(options).undoStopAfter,
                       formatDepth |-> options.formatDepth]
    /\ UNCHANGED <<mirrorVars, activeDoc, selections, undo>>
    /\ UNCHANGED runnerVars

\* The host settles editor.edit: committed, it applies the transaction to the
\* editor's buffer and reports the change, then the then callback runs; refused,
\* the buffer stays and the then callback runs with false.
HostCommit(ok) ==
    /\ epc = "committing"
    /\ ok => OpsDisjoint(req.ops)
    /\ \E changes \in {LaterFirst(req.ops)} :
       \E after \in {IF ok
                     THEN HostApplyChanges(hostLines[req.editor], eol[req.editor],
                                           changes)
                     ELSE hostLines[req.editor]} :
          /\ NormalLen(after) <= MaxLen
          /\ hostLines' = [hostLines EXCEPT ![req.editor] = after]
          /\ IF ok /\ registered /\ Len(changes) > 0
             THEN \E r \in {ChangeListeners(subscribed["change"], documents,
                                            nextMirror, req.editor,
                                            languageId[req.editor], after,
                                            eol[req.editor], changes)} :
                     /\ Registers(r, "change", req.editor, Len(changes))
                     /\ event' = changes
                     /\ calls' = r.calls
             ELSE UNCHANGED <<nextMirror, documents, event, calls, last>>
          /\ \E t \in {ThenCallback(ok, req, activeDoc,
                                    IF activeDoc = req.editor THEN after
                                    ELSE IF activeDoc = NoDoc THEN <<>>
                                    ELSE hostLines[activeDoc],
                                    IF activeDoc = NoDoc THEN "LF" ELSE eol[activeDoc],
                                    selections)} :
                /\ result' = t.result
                /\ selections' = t.selections
                /\ effects' = t.effects
                /\ epc' = IF t.result = "pending" THEN "formatting" ELSE "settled"
    /\ req' = [req EXCEPT !.committed = IF ok THEN "true" ELSE "false"]
    /\ undo' = IF ok
               THEN [undo EXCEPT ![req.editor] =
                        HostTransaction(@, req.undoStopBefore, req.undoStopAfter,
                                        Len(req.ops))]
               ELSE undo
    /\ UNCHANGED <<languageId, eol, registered, subscribed, nChanges, activeDoc,
                   nEdits>>
    /\ UNCHANGED runnerVars

\* The promise of formatter.formatPosition settles, and with it the promise that
\* DocumentModel.edit returned.
FormatterSettles(outcome) ==
    /\ epc = "formatting"
    /\ epc' = "settled"
    /\ result' = outcome
    /\ UNCHANGED <<mirrorVars, activeDoc, selections, req, effects, nEdits, undo>>
    /\ UNCHANGED runnerVars

\* The caller has seen the result; the model is free for the next call.
EditReturns ==
    /\ epc = "settled"
    /\ epc' = "idle"
    /\ req' = NoReq
    /\ result' = "pending"
    /\ effects' = <<>>
    /\ UNCHANGED <<mirrorVars, activeDoc, selections, nEdits, undo>>
    /\ UNCHANGED runnerVars

\* reportTests is called with the results of one or two test requests.
ReportTests(results) ==
    /\ nReports < MaxReports
    /\ nReports' = nReports + 1
    /\ lastReport' = results
    /\ \E r \in {reportTests(results, nReports + 1, lookups)} :
          /\ diagnosticCollection' = r.collection
          /\ lookups' = r.lookups
    /\ UNCHANGED <<mirrorVars, activeDoc, editVars, runVars>>

\* The promise of a findFiles call resolves and its then callback runs.
LookupResolves(lookup, found) ==
    /\ lookup \in lookups
    /\ lookups' = lookups \ {lookup}
    /\ diagnosticCollection' = LookupThen(diagnosticCollection, lookup, found)
    /\ UNCHANGED <<mirrorVars, activeDoc, editVars, nReports, lastReport,
                   runVars>>

\* runNamespaceTests(document) up to its first await: nothing is done for the
\* results document or without a connection, else evaluate.loadFile is called.
RunNamespaceTests(ns, isResultsDoc, connected) ==
    /\ rpc = "idle"
    /\ nRuns < MaxRuns
    /\ nRuns' = nRuns + 1
    /\ run' = [ns |-> ns, resultsDoc |-> isResultsDoc, connected |-> connected]
    /\ output' = <<>>
    /\ IF isResultsDoc \/ ~connected
       THEN /\ rpc' = "returned"
            /\ sessionLog' = <<>>
       ELSE /\ rpc' = "loadFile"
            /\ sessionLog' = <<Request("loadFile", ns)>>
    /\ UNCHANGED <<mirrorVars, activeDoc, editVars, reportVars>>

\* evaluate.loadFile settles: the run goes on to considerTestNS, which asks for the
\* path of ns + '-test' unless ns ends in "-test", and then to the test requests.
LoadFileSettles(ok) ==
    /\ rpc = "loadFile"
    /\ IF ~ok
       THEN /\ rpc' = "rejected"
            /\ sessionLog' = Settled(sessionLog, Len(sessionLog), FALSE, NoTests)
            /\ output' = output
       ELSE /\ output' = Append(output, "running")
            /\ IF endsWithTest(run.ns)
               THEN /\ rpc' = "testNs"
                    /\ sessionLog' = Settled(sessionLog, Len(sessionLog), TRUE, NoTests)
                                      \o TestRequests(ConsideredNss(run.ns))
               ELSE /\ rpc' = "nsPath"
                    /\ sessionLog' = Append(Settled(sessionLog, Len(sessionLog), TRUE,
                                                     NoTests),
                                            Request("nsPath", TestNS(run.ns)))
    /\ UNCHANGED <<mirrorVars, activeDoc, editVars, reportVars, run, nRuns>>

\* session.nsPath settles: with a path the test file is loaded by an eval, without
\* one the test requests are made.
NsPathSettles(ok, hasPath) ==
    /\ rpc = "nsPath"
    /\ IF ~ok
       THEN /\ rpc' = "rejected"
            /\ sessionLog' = Settled(sessionLog, Len(sessionLog), FALSE, NoTests)
       ELSE IF hasPath
       THEN /\ rpc' = "eval"
            /\ sessionLog' = Append(Settled(sessionLog, Len(sessionLog), TRUE, NoTests),
                                    Request("eval", TestNS(run.ns)))
       ELSE /\ rpc' = "testNs"
            /\ sessionLog' = Settled(sessionLog, Len(sessionLog), TRUE, NoTests)
                              \o TestRequests(ConsideredNss(run.ns))
    /\ UNCHANGED <<mirrorVars, activeDoc, editVars, reportVars, run, output, nRuns>>

\* The eval of (load-file ...) settles: the test requests are made.
EvalSettles(ok) ==
    /\ rpc = "eval"
    /\ IF ~ok
       THEN /\ rpc' = "rejected"
            /\ sessionLog' = Settled(sessionLog, Len(sessionLog), FALSE, NoTests)
       ELSE /\ rpc' = "testNs"
            /\ sessionLog' = Settled(sessionLog, Len(sessionLog), TRUE, NoTests)
                              \o TestRequests(ConsideredNss(run.ns))
    /\ UNCHANGED <<mirrorVars, activeDoc, editVars, reportVars, run, output, nRuns>>

\* Promise.all has resolved with the log's results: reportTests, then the prompt.
Reports(log) ==
    /\ rpc' = "returned"
    /\ output' = output \o <<"report", "prompt">>
    /\ nReports' = nReports + 1
    /\ lastReport' = ResultsOf(log)
    /\ \E r \in {reportTests(ResultsOf(log), nReports + 1, lookups)} :
          /\ diagnosticCollection' = r.collection
          /\ lookups' = r.lookups

\* One session.testNs settles; when Promise.all resolves with it, the results are
\* reported and the prompt is appended; when it rejects, the run ends there.
TestNsSettles(i, ok, answer) ==
    /\ rpc = "testNs"
    /\ i \in 1..Len(sessionLog)
    /\ sessionLog[i].op = "testNs"
    /\ sessionLog[i].state = "pending"
    /\ sessionLog' = Settled(sessionLog, i, ok, answer)
    /\ IF ~ok
       THEN /\ rpc' = "rejected"
            /\ UNCHANGED <<reportVars, output>>
       ELSE IF AllTestsResolved(Settled(sessionLog, i, ok, answer))
       THEN Reports(Settled(sessionLog, i, ok, answer))
       ELSE UNCHANGED <<rpc, reportVars, output>>
    /\ UNCHANGED <<mirrorVars, activeDoc, editVars, run, nRuns>>

\* The promise of runNamespaceTests has settled; the command can be run again.
RunReturns ==
    /\ rpc \in {"returned", "rejected"}
    /\ rpc' = "idle"
    /\ UNCHANGED <<mirrorVars, activeDoc, editVars, reportVars, run, sessionLog,
                   output, nRuns>>

Next ==
    \/ \E active \in Docs \cup {NoDoc} : Activate(active)
    \/ \E doc \in Docs : DidClose(doc)
    \/ \E doc \in Docs \cup {NoDoc} : DidChangeActiveTextEditor(doc)
    \/ \E doc \in Docs : DidOpen(doc)
    \/ \E changes \in ChangeEvents(hostLines["d1"], SmallTexts,
                                   MaxChanges - nChanges) :
          DidChange("d1", changes, FALSE)
    \/ \E doc \in Docs : \E lang \in Languages : LanguageChanged(doc, lang)

\* The registry through the documents' life cycle, with small change events.
Spec == Init /\ [][Next]_vars

\* The state after activate() with "abc" EOL "def" in the active editor.
InitChange ==
    /\ languageId = [d \in Docs |-> IF d = "d1" THEN "clojure" ELSE "plaintext"]
    /\ eol \in {f \in [Docs -> EolStyles] : f["d2"] = "LF"}
    /\ hostLines = [d \in Docs |-> IF d = "d1" THEN AbcDef ELSE <<<<"a">>>>]
    /\ registered = TRUE
    /\ subscribed = [l \in Listeners |-> 1]
    /\ documents = addDocument(<<>>, 0, "d1", "clojure", AbcDef, eol["d1"]).documents
    /\ nextMirror = 1
    /\ nChanges = 0
    /\ last = Ran("activate", "d1", "false", 0)
    /\ event = <<>>
    /\ calls = <<>>
    /\ activeDoc = "d1"
    /\ selections = [d \in Docs |-> <<<<0, 0>>, <<0, 0>>>>]
    /\ epc = "idle"
    /\ req = NoReq
    /\ result = "pending"
    /\ effects = <<>>
    /\ nEdits = 0
    /\ undo = [d \in Docs |-> NoUndo]
    /\ InitRunner

NextChange ==
    \/ DidClose("d1")
    \/ \E changes \in ChangeEvents(hostLines["d1"], ChangeTexts,
                                   MaxChanges - nChanges) :
          DidChange("d1", changes, TRUE)

\* The Change Translator on the registered document "abc" EOL "def", with one- and
\* two-range change events, the document closed in between.
SpecChange == InitChange /\ [][NextChange]_vars

NextOffset ==
    \/ \E active \in Docs \cup {NoDoc} : Activate(active)
    \/ \E doc \in Docs : DidClose(doc)
    \/ \E doc \in Docs : DidOpen(doc)
    \/ \E doc \in Docs : \E lang \in Languages : LanguageChanged(doc, lang)
    \/ \E changes \in ChangeEvents(hostLines["d1"], SmallTexts,
                                   MaxChanges - nChanges) :
          DidChange("d1", changes, TRUE)
    \/ \E doc \in Docs : \E position \in Positions(hostLines[doc]) :
          GetDocumentOffset(doc, position)

\* The lookups of the registry: the change listener and getDocumentOffset, on
\* documents with and without a Mirror.
SpecOffset == Init /\ [][NextOffset]_vars

NextInsert ==
    \/ \E anchor, active \in Positions(hostLines["d1"]) :
          SelectionChanges(anchor, active)
    \/ \E ok \in BOOLEAN : InsertString("d1", <<"x">>, ok)

\* MirroredDocument.insertString on the registered document "abc" EOL "def", the
\* user selecting in between.
SpecInsert == InitChange /\ [][NextInsert]_vars

NextReport ==
    \/ \E results \in {<<a>> : a \in TestResults}
                      \cup {<<a, NoTests>> : a \in TestResults} :
          ReportTests(results)
    \/ \E lookup \in lookups : \E found \in BOOLEAN : LookupResolves(lookup, found)

\* Test reports and the file lookups they start, resolving in any order.
SpecReport == Init /\ [][NextReport]_vars

NextRun ==
    \/ \E ns \in Namespaces : \E isResultsDoc, connected \in BOOLEAN :
          RunNamespaceTests(ns, isResultsDoc, connected)
    \/ \E ok \in BOOLEAN : LoadFileSettles(ok)
    \/ \E ok, hasPath \in BOOLEAN : NsPathSettles(ok, hasPath)
    \/ \E ok \in BOOLEAN : EvalSettles(ok)
    \/ \E i \in 1..Len(sessionLog) : \E ok \in BOOLEAN : \E answer \in RunResults :
          TestNsSettles(i, ok, answer)
    \/ RunReturns
    \/ \E lookup \in lookups : \E found \in BOOLEAN : LookupResolves(lookup, found)

\* runNamespaceTests, its session requests settling in any order.
SpecRun == Init /\ [][NextRun]_vars

NextEdit ==
    \/ \E active \in Docs \cup {NoDoc} : Activate(active)
    \/ \E doc \in Docs \cup {NoDoc} : DidChangeActiveTextEditor(doc)
    \/ \E this \in Docs : \E modelEdits \in EditBatches : \E options \in EditOptions :
          EditRequest(this, modelEdits, options)
    \/ \E ok \in BOOLEAN : HostCommit(ok)
    \/ \E outcome \in FormatOutcomes : FormatterSettles(outcome)
    \/ EditReturns

\* DocumentModel.edit against the host, the active editor changing in between.
SpecEdit == InitEdit /\ [][NextEdit]_vars

\* ----------------------------------------------------------------- claims
\* The handlers that call addDocument.
AddOps == {"activate", "open", "reopen", "activeEditor", "change"}

\* The registry's entry of doc, and the text its model holds.
MirrorOf(doc) == MapGet(documents, doc)
HostNormalText(doc) == ReplaceCRLF(HostGetText(hostLines[doc], eol[doc]))

\* The last handler was the change listener and it ran processChanges.
ChangeProcessed == last.op = "change" /\ last.ret = "true"

\* The model of the last event's document with the line table it held when the
\* k-th call of edit was made.
TableAt(k) ==
    [lines |-> calls[k].table,
     lineEndingLength |-> MirrorOf(last.doc).model.lineEndingLength,
     dirtyLines |-> <<>>, insertedLines |-> {}, deletedLines |-> {}]

\* The formatter was called by the then callback of the current edit.
FormatterCalled == \E i \in 1..Len(effects) : effects[i].what = "format"

\* Sum of the lengths of the first n lines of a line table.
RECURSIVE LineLengths(_, _)
LineLengths(table, n) ==
    IF n = 0 THEN 0 ELSE LineLengths(table, n - 1) + Len(table[n])

\* s without every "\r" that is directly followed by "\n".
RECURSIVE DropCRBeforeLF(_, _)
DropCRBeforeLF(s, i) ==
    IF i > Len(s) THEN <<>>
    ELSE (IF s[i] = CR /\ i < Len(s) /\ s[i + 1] = LF THEN <<>> ELSE <<s[i]>>)
         \o DropCRBeforeLF(s, i + 1)

\* C1: after every handled change event, the first one for a document included,
\* the text of each registered document's model equals the host buffer's text with
\* CRLF replaced by LF.
C1_MirrorTextEqualsHost ==
    \A i \in 1..Len(documents) :
        LimText(documents[i].value.model) = HostNormalText(documents[i].key)

\* C1 witness: a two-range event with a CRLF text was processed on a CRLF document.
C1_Witness ==
    /\ ChangeProcessed
    /\ Len(event) = 2
    /\ eol[last.doc] = "CRLF"
    /\ event[1].text = <<"a", CR, LF, "b">>
    /\ event[2].text = <<"x">>
    /\ Len(hostLines[last.doc]) = 3

\* The registry holds one entry per document, each of the tracked language.
C2_Inv ==
    /\ \A i, j \in 1..Len(documents) :
          documents[i].key = documents[j].key => i = j
    /\ \A i \in 1..Len(documents) :
          /\ documents[i].key \in Docs
          /\ languageId[documents[i].key] = "clojure"
          /\ documents[i].value.document = documents[i].key

\* A handler's addDocument on a document of another language returns false and
\* leaves the registry as it was (as the close half left it, for a language change).
C2_Step ==
    (/\ last'.op \in AddOps
     /\ last'.ret # "none"
     /\ last'.doc \in Docs
     /\ languageId'[last'.doc] # "clojure")
    => /\ last'.ret = "false"
       /\ documents' = IF last'.op = "reopen"
                       THEN CloseHandler(documents, last'.doc, languageId[last'.doc])
                       ELSE documents

\* C2: each document identity has at most one entry in the registry, every
\* registered document is of the tracked language, and addDocument on a document of
\* another language returns false and leaves the registry as it was.
C2_RegistryUniqueAndTracked == C2_Inv /\ [][C2_Inv' /\ C2_Step]_vars

\* C2 witness: a change event for a document that is no longer of the tracked
\* language was handled while another document is registered.
C2_Witness ==
    /\ last.op = "change"
    /\ last.doc = "d1"
    /\ languageId["d1"] = "plaintext"
    /\ last.ret = "false"
    /\ MapKeys(documents) = {"d2"}

\* One handler's addDocument on a tracked document: the first call for it and a
\* call for a registered one.
C3_Step ==
    LET d == last'.doc
    IN  (/\ last'.op \in AddOps
         /\ last'.ret # "none"
         /\ d \in Docs
         /\ languageId'[d] = "clojure")
        => IF MapHas(documents, d) /\ last'.op # "reopen"
           THEN /\ last'.ret = "true"
                /\ nextMirror' = nextMirror
                /\ MapKeys(documents') = MapKeys(documents)
                /\ MapGet(documents', d).id = MapGet(documents, d).id
                /\ last'.op # "change" => documents' = documents
           ELSE /\ last'.ret = "false"
                /\ nextMirror' = nextMirror + 1
                /\ MapHas(documents', d)
                /\ MapGet(documents', d).id = nextMirror

\* C3: addDocument on a tracked document that is not registered returns false and
\* constructs one Mirror; called again it returns true, constructs nothing and
\* leaves the registry, the Mirror's identity and its model as they were.
C3_RegisterTwice == [][C3_Step]_vars

\* C3 witness: the open listener's addDocument returned true for the one Mirror
\* constructed so far.
C3_Witness ==
    /\ last.op = "open"
    /\ last.ret = "true"
    /\ nextMirror = 1
    /\ MapHas(documents, last.doc)
    /\ MirrorOf(last.doc).id = 0

\* One step of the registry: a close removes, and only an observation adds.
C4_Step ==
    /\ last'.op = "close" => ~MapHas(documents', last'.doc)
    /\ \A d \in Docs :
          (registered /\ ~MapHas(documents, d) /\ MapHas(documents', d))
          => /\ last'.op \in {"open", "reopen", "activeEditor", "change"}
             /\ last'.doc = d
             /\ last'.ret = "false"
             /\ MapGet(documents', d).id = nextMirror
             /\ LimText(MapGet(documents', d).model)
                  = ReplaceCRLF(HostGetText(hostLines'[d], eol'[d]))

\* C4: a close notification removes the document's Mirror; the document stays
\* absent until an open, active-editor-change or change event for it, which
\* registers a new Mirror seeded from the document's text at that time.
C4_CloseRemovesUntilObserved == [][C4_Step]_vars

\* C4 witness: after its first Mirror was removed, d1 was registered again by a
\* change event, with a new Mirror holding the changed text.
C4_Witness ==
    /\ last.op = "change"
    /\ last.doc = "d1"
    /\ last.ret = "false"
    /\ languageId["d2"] = "plaintext"
    /\ nextMirror = 2
    /\ MapKeys(documents) = {"d1"}
    /\ MirrorOf("d1").id = 1
    /\ hostLines["d1"] \notin SeedLines

C6_OneBatchThenFlush ==
    ChangeProcessed =>
        /\ Len(calls) = 2
        /\ calls[1].fn = "edit"
        /\ Len(calls[1].edits) = Len(event)
        /\ calls[2].fn = "flushChanges"

\* C6 amended: each range of an event is translated and submitted on its own, in
\* event order, as a batch of one changeRange edit built against the line table as
\* it stands at that call; one flush follows the last batch.
C6_OneEditCallPerRange ==
    ChangeProcessed =>
        /\ Len(calls) = Len(event) + 1
        /\ calls[Len(calls)].fn = "flushChanges"
        /\ \A k \in 1..Len(event) :
              /\ calls[k].fn = "edit"
              /\ Len(calls[k].edits) = 1
              /\ calls[k].edits[1].editFn = "changeRange"
              /\ calls[k].edits[1].args[3]
                   = DropCRBeforeLF(event[k].text, 1)
              /\ LET w  == MirrorOf(last.doc).model.lineEndingLength
                     ch == event[k]
                 IN  calls[k].edits[1].args[1]
                       = LineLengths(calls[k].table, ch.start[1])
                         + w * ch.start[1] + ch.start[2]

\* C6 witness: an event of two ranges was processed.
C6_Witness ==
    /\ ChangeProcessed
    /\ Len(event) = 2
    /\ Len(calls) = 3
    /\ event[1].start[1] = 1
    /\ event[2].end[1] = 0

\* C7: the text of every recorded model edit is the change's text without the "\r"
\* of each "\r\n", nothing else changed; "a\r\nb" gives "a\nb".
C7_TextHasCRLFReplaced ==
    ChangeProcessed =>
        \A k \in 1..Len(event) :
            LET text == calls[k].edits[1].args[3]
            IN  /\ text = DropCRBeforeLF(event[k].text, 1)
                /\ event[k].text = <<"a", CR, LF, "b">>
                   => text = <<"a", LF, "b">>

\* C7 witness: a change whose text holds two CRLF was translated.
C7_Witness ==
    /\ ChangeProcessed
    /\ Len(event) = 1
    /\ event[1].text = <<CR, LF, CR, LF>>
    /\ calls[1].edits[1].args[3] = <<LF, LF>>

C9_Step ==
    (epc = "committing" /\ req'.committed = "false")
    => /\ epc' = "settled"
       /\ result' = "false"
       /\ effects' = <<>>
       /\ selections' = selections

\* While the call whose commit was refused is current.
C9_Inv == req.committed = "false" => (result = "false" /\ effects = <<>>)

\* C9: when the host refuses the commit, the promise of DocumentModel.edit is
\* resolved to false at once, neither thrown nor rejected, no selection is set
\* and the formatter is not called.
C9_FailedCommitResolvesFalse == C9_Inv /\ [][C9_Inv' /\ C9_Step]_vars

\* C9 witness: a refused commit of an edit that asked for a selection and for
\* formatting has settled to false.
C9_Witness ==
    /\ epc = "settled"
    /\ req.committed = "false"
    /\ req.selection.present
    /\ ~req.skipFormat
    /\ Len(req.ops) = 2
    /\ result = "false"

\* C10 as claimed: whenever the transaction committed and the formatter was
\* called, the promise of DocumentModel.edit resolves to true, whatever the
\* formatter's promise settles to.
C10_FormatNeverChangesResult ==
    (epc = "settled" /\ req.committed = "true" /\ FormatterCalled) => result = "true"

\* The selection setter ran in the then callback of the current edit.
SelectionApplied ==
    \E i, j \in 1..Len(effects) :
        /\ effects[i].what = "selection"
        /\ effects[j].what = "reveal"
        /\ i < j

\* C11 as claimed: nothing is done before the commit has resolved successfully;
\* after it, the selection is set and its active end revealed if and only if
\* options.selection is present, the formatter is called if and only if
\* options.skipFormat is false, and the selection is set before the formatter is
\* called.
C11_SelectionThenFormatAfterCommit ==
    /\ req.committed # "true" => effects = <<>>
    /\ (req.committed = "true" /\ epc \in {"formatting", "settled"})
       => /\ SelectionApplied <=> req.selection.present
          /\ FormatterCalled <=> ~req.skipFormat
          /\ \A i, j \in 1..Len(effects) :
                (effects[i].what = "format" /\ effects[j].what # "format") => j < i

\* The text of a buffer with the ranges a and b of one transaction replaced, both
\* taken on the buffer as it was before the transaction: the text up to the
\* earlier range, its new text, the text between the two, the later range's new
\* text, the rest.
ReplacedBoth(flat, lines, style, a, b) ==
    SubSeq(flat, 1, HostOffsetAt(lines, style, a.start[1], a.start[2]))
    \o a.text
    \o SubSeq(flat, HostOffsetAt(lines, style, a.end[1], a.end[2]) + 1,
              HostOffsetAt(lines, style, b.start[1], b.start[2]))
    \o b.text
    \o SubSeq(flat, HostOffsetAt(lines, style, b.end[1], b.end[2]) + 1, Len(flat))

\* The text of a buffer after a transaction of at most two ranges, each taken on
\* the buffer as it was before the transaction, in call order where they meet.
PreEditApplied(lines, style, ops) ==
    IF Len(ops) = 0 THEN HostGetText(lines, style)
    ELSE IF Len(ops) = 1
    THEN Splice(HostGetText(lines, style),
                HostOffsetAt(lines, style, ops[1].start[1], ops[1].start[2]),
                HostOffsetAt(lines, style, ops[1].end[1], ops[1].end[2]),
                ops[1].text)
    ELSE IF PosLeq(ops[1].end, ops[2].start)
    THEN ReplacedBoth(HostGetText(lines, style), lines, style, ops[1], ops[2])
    ELSE ReplacedBoth(HostGetText(lines, style), lines, style, ops[2], ops[1])

\* The step that commits the transaction of the current call.
Commits == epc = "committing" /\ req'.committed = "true"

\* The current call's batch was [Insert(0, "X"), Insert(0, "Y")].
IsXThenY ==
    /\ req.editor # NoDoc
    /\ req.ops = BuilderOps(hostLines[req.editor], eol[req.editor], XThenY)

NothingNoted(m) ==
    /\ m.dirtyLines = <<>>
    /\ m.insertedLines = {}
    /\ m.deletedLines = {}

\* C13: after processChanges has returned, the dirty-line list, the inserted-line
\* set and the deleted-line set of the event document's model are empty, whatever
\* they held before and whatever the event's changes were, none included.
C13_BookkeepingEmptyAfterProcessChanges ==
    ChangeProcessed => NothingNoted(MirrorOf(last.doc).model)

\* C13 witness: an event without change ranges was processed on the model that the
\* seeding of "abc" EOL "def" had left with dirty and inserted lines.
C13_Witness ==
    /\ ChangeProcessed
    /\ last.ranges = 0
    /\ nChanges = 0
    /\ Len(calls) = 1
    /\ ~NothingNoted(NewMirror(0, "d1", AbcDef, eol["d1"]).model)
    /\ MirrorOf("d1").model.lines = AbcDef

\* C14: however many times activate() is called, each of the open, close,
\* active-editor-change and change listeners is subscribed once from the first call
\* on (and not before), so a change event is applied to the Mirror's model once:
\* the model's text is the buffer's after every processed event.
C14_SubscribedOnce ==
    /\ \A l \in Listeners : subscribed[l] = IF registered THEN 1 ELSE 0
    /\ ChangeProcessed
       => LimText(MirrorOf(last.doc).model) = HostNormalText(last.doc)

\* C14 witness: activate() was called again, after change events had been
\* delivered, and returned at its test of registered.
C14_Witness ==
    /\ last.op = "activate"
    /\ last.ret = "none"
    /\ registered
    /\ nChanges = MaxChanges
    /\ MapHas(documents, "d1")
    /\ hostLines["d1"] \notin SeedLines

\* C15 as claimed: with no Mirror of the document in the registry, the change
\* listener processes nothing and getDocumentOffset raises no error.
C15_AbsentMirrorIsNoError ==
    /\ (last.op = "change" /\ last.ret = "false") => calls = <<>>
    /\ (last.op = "getDocumentOffset" /\ ~MapHas(documents, last.doc))
       => last.ret # "thrown"

\* The earlier of two positions.
PosMin(p, q) == IF PosLeq(p, q) THEN p ELSE q

\* C16 as claimed: insertString inserts the text at the left edge of the selection,
\* the earlier of its anchor and its active end, also when the active end lies
\* before the anchor.
C16_InsertsAtLeftEdge ==
    (ChangeProcessed /\ Len(event) = 1)
    => /\ event[1].start = PosMin(selections[last.doc][1], selections[last.doc][2])
       /\ event[1].end = event[1].start

\* The step that commits a transaction of at least one range.
C17_Step ==
    (Commits /\ Len(req.ops) > 0)
    => /\ ~req.undoStopAfter
       /\ undo'[req.editor].open
       /\ IF req.undoStopBefore \/ undo[req.editor].groups = <<>>
          THEN undo'[req.editor].groups = Append(undo[req.editor].groups, 1)
          ELSE /\ Len(undo'[req.editor].groups) = Len(undo[req.editor].groups)
               /\ undo'[req.editor].groups[Len(undo[req.editor].groups)]
                    = undo[req.editor].groups[Len(undo[req.editor].groups)] + 1

\* C17: every transaction of DocumentModel.edit is committed without an undo stop
\* after it, and with one before it only when options.undoStopBefore is set: a
\* committed batch that does not set undoStopBefore joins the undo group of the
\* batch committed before it on the same editor.
C17_NoTrailingUndoStop == [][C17_Step]_vars

\* C17 witness: two batches were committed on d1, the second without
\* undoStopBefore, and form one undo group.
C17_Witness ==
    /\ nEdits = 2
    /\ req.committed = "true"
    /\ req.editor = "d1"
    /\ ~req.undoStopBefore
    /\ Len(req.ops) > 0
    /\ undo["d1"] = [groups |-> <<2>>, open |-> TRUE]

\* C18 as claimed: the selection of a committed edit is set, and revealed, in the
\* editor on which the transaction was committed, also when the active editor has
\* changed between the call of edit and the resolution of the commit.
C18_SelectionOnCommittedEditor ==
    \A i \in 1..Len(effects) :
        effects[i].what \in {"selection", "reveal"} => effects[i].editor = req.editor

\* C19 as claimed: once no file lookup is pending, the diagnostic collection holds
\* diagnostics of the most recent report only, none when that report counted no
\* failure and no error.
C19_OnlyLatestReportPublished ==
    (lookups = {} /\ nReports > 0)
    => /\ \A f \in FileNames :
             diagnosticCollection[f] \in {0, nReports}
       /\ TotalSummary(lastReport).error + TotalSummary(lastReport).fail = 0
          => diagnosticCollection = EmptyCollection

\* The test requests of the current run, as positions of the session's log.
TestIndexes == {i \in 1..Len(sessionLog) : sessionLog[i].op = "testNs"}

\* The namespaces the current run has asked the session to test, in order.
RECURSIVE TestedNss(_)
TestedNss(log) ==
    IF Len(log) = 0 THEN <<>>
    ELSE (IF Head(log).op = "testNs" THEN <<Head(log).ns>> ELSE <<>>)
         \o TestedNss(Tail(log))

\* C20: runNamespaceTests asks the session to test exactly ns and ns-test (exactly
\* ns when ns ends in "-test"), and only after the file load, the lookup of the
\* test namespace and the load of its file have completed; it reports once, only
\* after every test request it made has resolved, with their results, and appends
\* the prompt after the report; for the results document or without a connection
\* it makes no session request.
C20_RunNamespaceTestsOrder ==
    /\ (run.resultsDoc \/ ~run.connected) => (sessionLog = <<>> /\ output = <<>>)
    /\ TestedNss(sessionLog)
         \in {<<>>, IF run.ns = "app.core-test" THEN <<"app.core-test">>
                    ELSE <<"app.core", "app.core-test">>}
    /\ \A i \in TestIndexes :
          /\ sessionLog[1].op = "loadFile"
          /\ run.ns = "app.core" => sessionLog[2].op = "nsPath"
          /\ \A j \in 1..(i - 1) :
                sessionLog[j].op # "testNs" => sessionLog[j].state = "resolved"
    /\ output \in {<<>>, <<"running">>, <<"running", "report", "prompt">>}
    /\ Len(output) = 3
       => /\ TestIndexes # {}
          /\ \A i \in TestIndexes : sessionLog[i].state = "resolved"
          /\ Len(lastReport) = Cardinality(TestIndexes)
          /\ \A k \in 1..Len(lastReport) :
                \E i \in TestIndexes :
                    /\ Cardinality({j \in TestIndexes : j <= i}) = k
                    /\ lastReport[k] = sessionLog[i].result
    /\ (rpc = "returned" /\ run.connected /\ ~run.resultsDoc) => Len(output) = 3

\* C20 witness: the run for app.core has loaded the file, found and loaded the test
\* file, tested both namespaces, reported a failure of the second and returned.
C20_Witness ==
    /\ rpc = "returned"
    /\ run.ns = "app.core"
    /\ Len(sessionLog) = 5
    /\ sessionLog[3].op = "eval"
    /\ sessionLog[4].result = NoTests
    /\ sessionLog[5].result = Result({"b_test.clj"}, 2, 0)
    /\ output = <<"running", "report", "prompt">>
    /\ lookups = {[fileName |-> "b_test.clj", report |-> nReports]}

====
